---- MODULE Spec2Model ----
(***************************************************************************)
(* Model of genSnippet.py (CODD snippet generator): population of a CARLA  *)
(* world with vehicles (each with a lidar and a sensorQueue) and walkers,  *)
(* the synchronous event loop that ticks the world, pops one lidar sample  *)
(* per vehicle and writes frames to the HDF5 file, and the cleanup in the  *)
(* finally block of main.                                                  *)
(*                                                                         *)
(* Two specifications share the variables and the cleanup actions:         *)
(*   SpecSpawn : main from its first line to the end of the population     *)
(*               phase (lines 117-158), then the finally block;            *)
(*   Spec      : main from the creation of the HDF5 file (line 160) on,    *)
(*               started in the states in which SpecSpawn leaves the       *)
(*               population phase (see LoopEntryIsInit).                   *)
(* The retry counter of the pedestrian loop is dead after line 158; the    *)
(* split keeps its 1000 values out of the state space of the event loop.   *)
(***************************************************************************)
EXTENDS Integers, Sequences, FiniteSets, TLC

\* ---------------------------------------------------------------- bounds
MaxFrames == 2
MaxBurn == 1
MaxVehicles == 2
MaxPedestrians == 2
\* world.tick() calls the model follows
MaxTicks == 2

\* ------------------------------------------------------- program constants
RetryCap == 1000

None == 0

\* f before line 163, and for good when args.save is '': no dataset
NoFile == [stream \in {} |-> None]

VARIABLES
    args,               \* parsed command line: frames, burn, nvehicles, npedestrians, save
    pc,                 \* position of the main thread
    outcome,            \* how the try block of main was left
    actors,             \* the simulator's actors, indexed by actor id
    Vehicle_instances,  \* Vehicle.instances
    Walker_instances,   \* Walker.instances
    inflight,           \* per lidar: ticks measured, callback not yet invoked
    retries,            \* local of main (pedestrian loop)
    savedFrames,        \* local of main (event loop)
    snap,               \* snap.frame of the last world.tick(), 0 before the first
    i,                  \* index of the for loop over Vehicle.instances
    f,                  \* the HDF5 file: stream -> <<frame, slot>> -> data, or NoFile
    destroyLog,         \* history: actor ids in the order destroy() was called
    startLog,           \* history: controller ids in the order start() was called
    popLog,             \* history: every successful sensorQueue.get
    writeLog,           \* history: every assignment into f
    iterLog,            \* history: every finished iteration of the event loop
    failed,             \* history: pedestrian loop iterations that placed nothing
    vCollided           \* history: some vehicle placement has failed

vars == <<args, pc, outcome, actors, Vehicle_instances, Walker_instances,
          inflight, retries, savedFrames, snap, i, f, destroyLog, startLog,
          popLog, writeLog, iterLog, failed, vCollided>>

worldVars == <<actors, inflight>>
loopVars == <<savedFrames, snap, i, f>>
histLoop == <<startLog, popLog, writeLog, iterLog>>
histSpawn == <<failed, vCollided>>

\* ------------------------------------------------------------- helpers
Range(s) == {s[n] : n \in DOMAIN s}

Count(s, x) == Cardinality({n \in DOMAIN s : s[n] = x})

ArgSpace ==
    [frames : 0..MaxFrames, burn : 0..MaxBurn, nvehicles : 0..MaxVehicles,
     npedestrians : 0..MaxPedestrians, save : BOOLEAN]

ActorsOfKind(kd) == {id \in DOMAIN actors : actors[id] = kd}

\* ------------------------------------------------- Vehicle / Walker class
\* line 27-29 and 81-83: the handle is appended unless try_spawn_actor gave None
RegistersAlways(body) == TRUE
Registers(body) == body # None

\* world.try_spawn_actor: the new actor's id, or None on a collision
try_spawn_actor(placement) ==
    IF placement = "collide" THEN None ELSE Len(actors) + 1

\* Vehicle.__init__; placement: "collide" (try_spawn_actor gives None),
\* "ok", or "raise" (world.spawn_actor of the lidar raises, or the run is
\* interrupted, after the handle was appended and before self.lidar is set)
Vehicle_init(placement) ==
    LET body == try_spawn_actor(placement)
        handle == [id |-> body,
                   lidar |-> IF placement = "ok" THEN body + 1 ELSE None,
                   sensorQueue |-> <<>>]
    IN  /\ Vehicle_instances' =
              IF Registers(body) THEN Append(Vehicle_instances, handle)
              ELSE Vehicle_instances
        /\ actors' = CASE placement = "collide" -> actors
                       [] placement = "raise" -> Append(actors, "vehicle")
                       [] OTHER -> actors \o <<"vehicle", "lidar">>
        /\ inflight' = IF placement = "ok" THEN inflight @@ (body + 1 :> <<>>)
                       ELSE inflight

\* Walker.__init__; same placements, the controller in place of the lidar
Walker_init(placement) ==
    LET body == try_spawn_actor(placement)
        handle == [id |-> body,
                   controller |-> IF placement = "ok" THEN body + 1 ELSE None]
    IN  /\ Walker_instances' =
              IF Registers(body) THEN Append(Walker_instances, handle)
              ELSE Walker_instances
        /\ actors' = CASE placement = "collide" -> actors
                       [] placement = "raise" -> Append(actors, "walker")
                       [] OTHER -> actors \o <<"walker", "controller">>

\* ------------------------------------------------------ population phase
Placements == {"collide", "ok", "raise"}

\* line 142-145: one iteration of the vehicle loop
SpawnVehicle ==
    /\ pc = "spawn_vehicles"
    /\ Len(Vehicle_instances) < args.nvehicles
    /\ \E placement \in Placements :
          /\ Vehicle_init(placement)
          /\ vCollided' = (vCollided \/ placement = "collide")
          /\ IF placement = "raise"
             THEN pc' = "finally" /\ outcome' = "error"
             ELSE UNCHANGED <<pc, outcome>>
    /\ UNCHANGED <<args, Walker_instances, retries, loopVars, destroyLog,
                   histLoop, failed>>

\* line 142 false, line 147-149
VehiclesGiveUp ==
    /\ pc = "spawn_vehicles"
    /\ ~(Len(Vehicle_instances) < args.nvehicles) \/ vCollided
    /\ retries' = 0
    /\ pc' = "spawn_walkers"
    /\ UNCHANGED <<args, outcome, worldVars, Vehicle_instances,
                   Walker_instances, loopVars, destroyLog, histLoop,
                   histSpawn>>
VehiclesDone ==
    /\ pc = "spawn_vehicles"
    /\ ~(Len(Vehicle_instances) < args.nvehicles)
    /\ retries' = 0
    /\ pc' = "spawn_walkers"
    /\ UNCHANGED <<args, outcome, worldVars, Vehicle_instances,
                   Walker_instances, loopVars, destroyLog, histLoop,
                   histSpawn>>

\* line 152
CapExceededEarly(r) == r >= RetryCap
CapExceeded(r) == r > RetryCap

\* line 150-158: one iteration of the pedestrian loop; "far" is a location
\* outside the radius (line 156-157)
SpawnWalker ==
    /\ pc = "spawn_walkers"
    /\ Len(Walker_instances) < args.npedestrians
    /\ retries' = retries + 1
    /\ IF CapExceeded(retries')
       THEN /\ pc' = "finally"
            /\ outcome' = "fatal"
            /\ UNCHANGED <<actors, Walker_instances, failed>>
       ELSE \E placement \in Placements \cup {"far"} :
               /\ IF placement = "far"
                  THEN UNCHANGED <<actors, Walker_instances>>
                  ELSE Walker_init(placement)
               /\ failed' = IF placement \in {"far", "collide"}
                            THEN failed + 1 ELSE failed
               /\ IF placement = "raise"
                  THEN pc' = "finally" /\ outcome' = "error"
                  ELSE UNCHANGED <<pc, outcome>>
    /\ UNCHANGED <<args, Vehicle_instances, inflight, loopVars, destroyLog,
                   histLoop, vCollided>>

\* line 150 false: the population phase is over (line 160 comes next)
WalkersDone ==
    /\ pc = "spawn_walkers"
    /\ ~(Len(Walker_instances) < args.npedestrians)
    /\ pc' = "create_file"
    /\ UNCHANGED <<args, outcome, worldVars, Vehicle_instances,
                   Walker_instances, retries, loopVars, destroyLog,
                   histLoop, histSpawn>>

\* ------------------------------------------------------------ event loop
Streams == {"point_cloud", "lidar_pose", "vehicle_boundingbox",
            "pedestrian_boundingbox"}

\* line 164-167: the shapes of the four datasets (frames and slots from 0)
Shape(stream) ==
    IF stream = "pedestrian_boundingbox"
    THEN (0..args.frames - 1) \X (0..args.npedestrians - 1)
    ELSE (0..args.frames - 1) \X (0..args.nvehicles - 1)

\* line 160-170: the file when args.save is set, and the frame index
CreateFile ==
    /\ pc = "create_file"
    /\ f' = IF args.save
            THEN [stream \in Streams |-> [cell \in Shape(stream) |-> 0]]
            ELSE NoFile
    /\ savedFrames' = -args.burn
    /\ pc' = "loop"
    /\ UNCHANGED <<args, outcome, worldVars, Vehicle_instances,
                   Walker_instances, retries, snap, i, destroyLog,
                   histLoop, histSpawn>>

\* line 171
LoopCondInclusive(sf) == sf <= args.frames
LoopCond(sf) == sf < args.frames

\* line 176
StartsControllersAtZero(sf) == sf = 0
StartsControllers(sf) == sf = 1

\* line 187 and 202
BurningOnlyUnsaved(sf) == ~args.save
Burning(sf) == sf < 0 \/ ~args.save

\* line 207-210: the frame index after the try statement
AfterTryAlways(sf, empty) == sf + 1
AfterTry(sf, empty) == IF empty THEN sf ELSE sf + 1

\* line 177-178: start() on every walker's controller, in list order
StartAll == [n \in DOMAIN Walker_instances |-> Walker_instances[n].controller]

\* line 171-178: world.tick() makes every lidar measure once; the snapshot;
\* the controllers when the frame index is 1
Tick ==
    /\ pc = "loop"
    /\ LoopCond(savedFrames)
    /\ snap < MaxTicks
    /\ snap' = snap + 1
    /\ inflight' = [id \in DOMAIN inflight |-> Append(inflight[id], snap')]
    /\ startLog' = IF StartsControllers(savedFrames)
                   THEN startLog \o StartAll ELSE startLog
    /\ i' = 1
    /\ pc' = "collect"
    /\ UNCHANGED <<args, outcome, actors, Vehicle_instances, Walker_instances,
                   retries, savedFrames, f, destroyLog, popLog, writeLog,
                   iterLog, histSpawn>>

\* line 171 false, line 218
LoopExit ==
    /\ pc = "loop"
    /\ ~LoopCond(savedFrames)
    /\ pc' = "finally"
    /\ outcome' = "normal"
    /\ UNCHANGED <<args, worldVars, Vehicle_instances, Walker_instances,
                   retries, loopVars, destroyLog, histLoop, histSpawn>>

\* f[stream][frame, slot] = data; h5py rejects an index outside the shape
AssignSlotZero(file, stream, frame, slot, data) ==
    IF <<frame, 0>> \in DOMAIN file[stream]
    THEN [file EXCEPT ![stream][<<frame, 0>>] = data]
    ELSE file
Assign(file, stream, frame, slot, data) ==
    IF <<frame, slot>> \in DOMAIN file[stream]
    THEN [file EXCEPT ![stream][<<frame, slot>>] = data]
    ELSE file

Written(stream, slot, data) ==
    [stream |-> stream, frame |-> savedFrames, slot |-> slot, data |-> data,
     snap |-> snap]

\* line 39 and 62: the callback registered on a lidar puts into the
\* sensorQueue of the handle that owns the lidar
ListensAny(handle, id) == TRUE
Listens(handle, id) == handle.lidar = id

\* line 182: Queue.get removes the item it returns
Peeked(queue) == queue
Popped(queue) == Tail(queue)

\* line 59-62: the callback thread of a lidar; a buffer that cannot be
\* reshaped raises on line 61 and nothing is put
lidar_callback(id) ==
    /\ id \in DOMAIN inflight
    /\ id \notin Range(destroyLog)
    /\ inflight[id] # <<>>
    /\ inflight' = [inflight EXCEPT ![id] = Tail(@)]
    /\ \E wellFormed \in BOOLEAN :
          Vehicle_instances' =
             [n \in DOMAIN Vehicle_instances |->
                 IF Listens(Vehicle_instances[n], id) /\ wellFormed
                 THEN [Vehicle_instances[n] EXCEPT
                          !.sensorQueue = Append(@, Head(inflight[id]))]
                 ELSE Vehicle_instances[n]]
    /\ UNCHANGED <<args, pc, outcome, actors, Walker_instances, retries,
                   loopVars, destroyLog, histLoop, histSpawn>>

\* line 181-200: one iteration of the for loop over Vehicle.instances in
\* which sensorQueue.get returns a sample
GetSample ==
    /\ pc = "collect"
    /\ i <= Len(Vehicle_instances)
    /\ Vehicle_instances[i].sensorQueue # <<>>
    /\ LET s == Head(Vehicle_instances[i].sensorQueue)
       IN  /\ Vehicle_instances' =
                 [Vehicle_instances EXCEPT ![i].sensorQueue = Popped(@)]
           /\ popLog' = Append(popLog, [vehicle |-> i, frame |-> s,
                                        snap |-> snap, sf |-> savedFrames])
           /\ IF Burning(savedFrames)
              THEN UNCHANGED <<f, writeLog>>
              ELSE /\ f' = Assign(Assign(Assign(f,
                              "point_cloud", savedFrames, i - 1, s),
                              "lidar_pose", savedFrames, i - 1, s),
                              "vehicle_boundingbox", savedFrames, i - 1, snap)
                   /\ writeLog' = writeLog \o
                         <<Written("point_cloud", i - 1, s),
                           Written("lidar_pose", i - 1, s),
                           Written("vehicle_boundingbox", i - 1, snap)>>
    /\ i' = i + 1
    /\ UNCHANGED <<args, pc, outcome, worldVars, Walker_instances, retries,
                   savedFrames, snap, destroyLog, startLog, iterLog,
                   histSpawn>>

\* line 182, 207-216: sensorQueue.get raises Empty after the timeout
GetEmpty ==
    /\ pc = "collect"
    /\ i <= Len(Vehicle_instances)
    /\ Vehicle_instances[i].sensorQueue = <<>>
    /\ savedFrames' = AfterTry(savedFrames, TRUE)
    /\ iterLog' = Append(iterLog, [snap |-> snap, sf |-> savedFrames,
                                   empty |-> TRUE])
    /\ pc' = "loop"
    /\ UNCHANGED <<args, outcome, worldVars, Vehicle_instances,
                   Walker_instances, retries, snap, i, f, destroyLog,
                   startLog, popLog, writeLog, histSpawn>>

\* line 201-206: the rows of the pedestrian stream
WalkerRows ==
    [n \in DOMAIN Walker_instances |->
        Written("pedestrian_boundingbox", n - 1, snap)]

RECURSIVE AssignAll(_, _)
AssignAll(file, rows) ==
    IF rows = <<>> THEN file
    ELSE AssignAll(Assign(file, Head(rows).stream, Head(rows).frame,
                          Head(rows).slot, Head(rows).data), Tail(rows))

\* line 201-216: the for loop over Walker.instances and the else clause
WalkerPass ==
    /\ pc = "collect"
    /\ i > Len(Vehicle_instances)
    /\ IF Burning(savedFrames)
       THEN UNCHANGED <<f, writeLog>>
       ELSE /\ f' = AssignAll(f, WalkerRows)
            /\ writeLog' = writeLog \o WalkerRows
    /\ savedFrames' = AfterTry(savedFrames, FALSE)
    /\ iterLog' = Append(iterLog, [snap |-> snap, sf |-> savedFrames,
                                   empty |-> FALSE])
    /\ pc' = "loop"
    /\ UNCHANGED <<args, outcome, worldVars, Vehicle_instances,
                   Walker_instances, retries, snap, i, destroyLog,
                   startLog, popLog, histSpawn>>

\* ------------------------------------------------------------- cleanup
\* line 221: Vehicle.instances + Walker.instances
AllInstances == Vehicle_instances \o Walker_instances

\* line 64-66 and 98-101: a handle whose lidar or controller attribute was
\* never set raises AttributeError on the first line of destroy
HasAttached(a) ==
    IF "lidar" \in DOMAIN a THEN a.lidar # None ELSE a.controller # None

\* line 64-66 and 98-101: the actors a.destroy() destroys, in order
BodyFirst(a) ==
    IF ~HasAttached(a) THEN <<>>
    ELSE IF "lidar" \in DOMAIN a THEN <<a.id, a.lidar>>
    ELSE <<a.id, a.controller>>
DestroyedBy(a) ==
    IF ~HasAttached(a) THEN <<>>
    ELSE IF "lidar" \in DOMAIN a THEN <<a.lidar, a.id>>
    ELSE <<a.controller, a.id>>

\* line 221-222: the destroy calls of the for loop, which an exception ends
RECURSIVE DestroyAll(_)
DestroyAll(handles) ==
    IF handles = <<>> \/ ~HasAttached(Head(handles)) THEN <<>>
    ELSE DestroyedBy(Head(handles)) \o DestroyAll(Tail(handles))

\* line 221-222: the for loop ran to its end
LoopCompleted(handles) == \A n \in DOMAIN handles : HasAttached(handles[n])

\* line 220-224: the finally block of main
Finally ==
    /\ pc = "finally"
    /\ destroyLog' = destroyLog \o DestroyAll(AllInstances)
    /\ IF LoopCompleted(AllInstances)
       THEN Vehicle_instances' = <<>> /\ Walker_instances' = <<>>
       ELSE UNCHANGED <<Vehicle_instances, Walker_instances>>
    /\ pc' = "ended"
    /\ UNCHANGED <<args, outcome, worldVars, retries, loopVars, histLoop,
                   histSpawn>>

\* KeyboardInterrupt (line 315) or an error of the simulator client inside
\* the try block
Interrupt ==
    /\ pc \in {"spawn_vehicles", "spawn_walkers", "create_file", "loop",
               "collect"}
    /\ pc' = "finally"
    /\ outcome' = "interrupted"
    /\ UNCHANGED <<args, worldVars, Vehicle_instances, Walker_instances,
                   retries, loopVars, destroyLog, histLoop, histSpawn>>

\* --------------------------------------------------------- specifications
InitSpawn ==
    /\ args \in ArgSpace
    /\ pc = "spawn_vehicles"
    /\ outcome = "running"
    /\ actors = <<>>
    /\ Vehicle_instances = <<>>
    /\ Walker_instances = <<>>
    /\ inflight = <<>>
    /\ retries = 0
    /\ savedFrames = 0
    /\ snap = 0
    /\ i = 0
    /\ f = NoFile
    /\ destroyLog = <<>>
    /\ startLog = <<>>
    /\ popLog = <<>>
    /\ writeLog = <<>>
    /\ iterLog = <<>>
    /\ failed = 0
    /\ vCollided = FALSE

NextSpawn ==
    \/ SpawnVehicle
    \/ VehiclesDone
    \/ SpawnWalker
    \/ WalkersDone
    \/ Interrupt
    \/ Finally

SpecSpawn == InitSpawn /\ [][NextSpawn]_vars

\* the handles and actors after a population phase that ended on line 158:
\* args.nvehicles vehicles with their lidars, then args.npedestrians walkers
\* with their controllers, ids in creation order
PopulatedVehicles ==
    [n \in 1..args.nvehicles |->
        [id |-> 2 * n - 1, lidar |-> 2 * n, sensorQueue |-> <<>>]]

PopulatedWalkers ==
    [n \in 1..args.npedestrians |->
        [id |-> 2 * args.nvehicles + 2 * n - 1,
         controller |-> 2 * args.nvehicles + 2 * n]]

PopulatedActors ==
    [id \in 1..2 * (args.nvehicles + args.npedestrians) |->
        IF id <= 2 * args.nvehicles
        THEN (IF id % 2 = 1 THEN "vehicle" ELSE "lidar")
        ELSE (IF id % 2 = 1 THEN "walker" ELSE "controller")]

Populated ==
    /\ pc = "create_file"
    /\ outcome = "running"
    /\ actors = PopulatedActors
    /\ Vehicle_instances = PopulatedVehicles
    /\ Walker_instances = PopulatedWalkers
    /\ inflight = [id \in {2 * n : n \in 1..args.nvehicles} |-> <<>>]
    /\ savedFrames = 0
    /\ snap = 0
    /\ i = 0
    /\ f = NoFile
    /\ destroyLog = <<>>
    /\ startLog = <<>>
    /\ popLog = <<>>
    /\ writeLog = <<>>
    /\ iterLog = <<>>

\* the command lines of the runs of the event loop the model follows: those
\* a run without a timeout finishes within MaxTicks ticks, without
\* pedestrians or with MaxPedestrians of them
LoopArgSpace ==
    {a \in ArgSpace : /\ a.frames + a.burn <= MaxTicks
                      /\ a.npedestrians \in {0, MaxPedestrians}}

Init ==
    /\ args \in LoopArgSpace
    /\ Populated
    /\ retries = args.npedestrians
    /\ failed = 0
    /\ vCollided = FALSE

Next ==
    \/ CreateFile
    \/ Tick
    \/ \E id \in DOMAIN inflight : lidar_callback(id)
    \/ GetSample
    \/ GetEmpty
    \/ WalkerPass
    \/ LoopExit
    \/ Interrupt
    \/ Finally

Spec == Init /\ [][Next]_vars

\* the steps of the main thread from line 160 on
MainStep ==
    \/ CreateFile
    \/ Tick
    \/ GetSample
    \/ GetEmpty
    \/ WalkerPass
    \/ LoopExit
    \/ Finally

\* a run that is not interrupted: the main thread and the callback threads
NextFair ==
    \/ MainStep
    \/ \E id \in DOMAIN inflight : lidar_callback(id)

\* the uninterrupted runs with the main thread scheduled: it is never
\* suspended for ever while it can step (sensorQueue.get returns after at
\* most 5 seconds, world.tick() when the simulator has stepped)
SpecFair == Init /\ [][NextFair]_vars /\ WF_vars(MainStep)

\* SpecSpawn leaves the population phase only in populated states; Spec
\* starts in those whose command line is in LoopArgSpace
LoopEntryIsInit == pc = "create_file" => Populated

\* ================================================================ claims
Last(s) == s[Len(s)]

\* the vehicles popped, in order, in the iteration of tick t
PopsOf(t) ==
    LET sel == SelectSeq(popLog, LAMBDA e : e.snap = t)
    IN  [n \in DOMAIN sel |-> sel[n].vehicle]

WritesOf(t) == {n \in DOMAIN writeLog : writeLog[n].snap = t}

NoTimeout == \A n \in DOMAIN iterLog : ~iterLog[n].empty

\* the cells of the file in the order a run without timeouts writes them:
\* frame by frame, the three vehicle streams of slot 0, 1, ... and then the
\* pedestrian stream of slot 0, 1, ...
ExpectedWrites ==
    LET nv == args.nvehicles
        np == args.npedestrians
        per == 3 * nv + np
    IN  [n \in 1..args.frames * per |->
            LET fr == (n - 1) \div per
                r == (n - 1) % per
            IN  IF r < 3 * nv
                THEN [stream |-> CASE r % 3 = 0 -> "point_cloud"
                                   [] r % 3 = 1 -> "lidar_pose"
                                   [] OTHER -> "vehicle_boundingbox",
                      frame |-> fr, slot |-> r \div 3]
                ELSE [stream |-> "pedestrian_boundingbox",
                      frame |-> fr, slot |-> r - 3 * nv]]

CellsWritten ==
    [n \in DOMAIN writeLog |->
        [stream |-> writeLog[n].stream, frame |-> writeLog[n].frame,
         slot |-> writeLog[n].slot]]

\* C1: with a file configured and no sensorQueue.get ever raising Empty, a
\* run of the event loop that ends normally has written exactly the frames
\* 0..frames-1: every cell of every vehicle and pedestrian slot once, in
\* increasing frame order, and nothing else.
C1_ExactlyFramesCommitted ==
    (outcome = "normal" /\ args.save /\ NoTimeout)
        => CellsWritten = ExpectedWrites

C1_Witness ==
    /\ pc = "ended" /\ outcome = "normal" /\ args.save /\ NoTimeout
    /\ args.frames >= 2
    /\ args.nvehicles >= 2 /\ args.npedestrians >= 1
    /\ Len(writeLog) = args.frames * (3 * args.nvehicles + args.npedestrians)

\* C2 (as claimed): every sample popped is the one its lidar measured for
\* the tick of the same iteration, and no sample is popped twice.
C2_SampleAlignedWithTick ==
    /\ \A n \in DOMAIN popLog : popLog[n].frame = popLog[n].snap
    /\ \A n, m \in DOMAIN popLog :
          (popLog[n].vehicle = popLog[m].vehicle
             /\ popLog[n].frame = popLog[m].frame) => n = m

\* C3 (as claimed): an iteration in which a sensorQueue.get raised Empty has
\* written to no stream of the file.
C3_NoPartialWrite ==
    \A n \in DOMAIN iterLog :
        iterLog[n].empty => WritesOf(iterLog[n].snap) = {}

C4_Step ==
    pc \in {"loop", "collect"} =>
        /\ savedFrames' >= savedFrames
        /\ IF pc = "collect" /\ pc' = "loop"
           THEN IF Len(PopsOf(snap)') = args.nvehicles
                THEN ~Last(iterLog').empty /\ savedFrames' = savedFrames + 1
                ELSE Last(iterLog').empty /\ savedFrames' = savedFrames
           ELSE savedFrames' = savedFrames

\* C4: in the event loop the frame index never decreases; it changes only at
\* the end of an iteration, by +1 when every vehicle's sample was popped and
\* by 0 when a sensorQueue.get raised Empty.
C4_FrameIndexMonotone ==
    [][C4_Step]_vars

C4_Witness ==
    /\ \E n \in DOMAIN iterLog : iterLog[n].empty
    /\ \E n \in DOMAIN iterLog : ~iterLog[n].empty
    /\ savedFrames = args.frames
    /\ args.nvehicles >= 2

\* C5 (as claimed): when main has ended, by whatever path, both instance
\* lists are empty and every actor spawned got exactly one destroy call.
C5_CleanupComplete ==
    pc = "ended" =>
        /\ Vehicle_instances = <<>>
        /\ Walker_instances = <<>>
        /\ \A id \in DOMAIN actors : Count(destroyLog, id) = 1

\* C6 (as claimed): no negative frame index is written, and an iteration
\* begun with a negative frame index pops one sample from every vehicle's
\* sensorQueue and writes nothing.
C6_BurnInPopsAllWritesNothing ==
    /\ \A m \in DOMAIN writeLog : writeLog[m].frame >= 0
    /\ \A n \in DOMAIN iterLog :
          iterLog[n].sf < 0 =>
              /\ PopsOf(iterLog[n].snap) = [j \in 1..args.nvehicles |-> j]
              /\ WritesOf(iterLog[n].snap) = {}

\* C7 (as claimed): a run that ends normally with frames >= 1 and at least
\* one pedestrian has started every walker's controller exactly once.
C7_ControllersStartedOnce ==
    (outcome = "normal" /\ args.frames >= 1 /\ args.npedestrians >= 1)
        => \A id \in ActorsOfKind("controller") : Count(startLog, id) = 1

WalkersCreated == Cardinality(ActorsOfKind("walker"))

\* C8 (as claimed): the fatal exit of the pedestrian loop is not taken while
\* fewer than 1000 placement attempts have failed.
C8_FatalOnlyAfterCapFailures ==
    outcome = "fatal" => failed >= RetryCap

C8_Step ==
    /\ (outcome' = "fatal") =>
          /\ failed' + WalkersCreated' = RetryCap
          /\ WalkersCreated' < args.npedestrians
    /\ (pc = "spawn_walkers") =>
          /\ failed + WalkersCreated = retries
          /\ retries <= RetryCap
          /\ (retries = RetryCap /\ WalkersCreated < args.npedestrians)
                => (outcome' \in {"fatal", "interrupted"})
          /\ (retries < RetryCap /\ outcome' = "running")
                => (pc' = IF WalkersCreated < args.npedestrians
                          THEN "spawn_walkers" ELSE "create_file")

\* C8 (amended): the fatal exit is taken exactly when 1000 iterations of the
\* pedestrian loop, successful placements included, have left the list
\* short of args.npedestrians; until then the loop goes on.
C8_FatalExactlyAfterCapIterations ==
    [][C8_Step]_vars

C8_Witness ==
    /\ outcome = "fatal"
    /\ failed < RetryCap
    /\ WalkersCreated >= 1

BodiesIn(acts, kd) == {id \in DOMAIN acts : acts[id] = kd}

HandleIds(handles) == {handles[n].id : n \in DOMAIN handles}

\* the list grew by exactly the handles of the new bodies (none or one)
GrewBy(old, new, bodies) ==
    IF bodies = {} THEN new = old
    ELSE /\ Len(new) = Len(old) + 1
         /\ SubSeq(new, 1, Len(old)) = old
         /\ bodies = {Last(new).id}

C9_Step ==
    pc' # "ended" =>
         /\ HandleIds(Vehicle_instances') = BodiesIn(actors', "vehicle")
         /\ HandleIds(Walker_instances') = BodiesIn(actors', "walker")
         /\ Len(Vehicle_instances') = Cardinality(BodiesIn(actors', "vehicle"))
         /\ Len(Walker_instances') = Cardinality(BodiesIn(actors', "walker"))
         /\ GrewBy(Vehicle_instances, Vehicle_instances',
                   BodiesIn(actors', "vehicle") \ BodiesIn(actors, "vehicle"))
         /\ GrewBy(Walker_instances, Walker_instances',
                   BodiesIn(actors', "walker") \ BodiesIn(actors, "walker"))
         /\ Len(actors') - Len(actors) <= 2

\* C9: until the finally block clears the lists, the handles in each list
\* are exactly the bodies of its kind that were created, each once; a
\* failed placement leaves both lists unchanged and a successful one appends
\* one handle, of the new body, to the list of its own kind.
C9_RegisteredIffCreated ==
    [][C9_Step]_vars

C9_Witness ==
    /\ vCollided /\ failed >= 1
    /\ Len(Vehicle_instances) >= 2
    /\ Len(Walker_instances) >= 1

\* C10 (as claimed): every finished iteration of the event loop has popped
\* exactly one sample from every vehicle's sensorQueue, in list order.
C10_OnePopPerVehiclePerTick ==
    \A n \in DOMAIN iterLog :
        PopsOf(iterLog[n].snap) = [j \in 1..args.nvehicles |-> j]

\* C11: a sensorQueue.get always returns, with a sample or with Empty; after
\* Empty the run is still in the loop, with the frame index it had and the
\* while test true, however many timeouts came before; and while the first
\* vehicle's queue has never given a sample, once the world has ticked no
\* cell is written, the frame index is -burn and the loop has not ended.
C11_TimeoutsNeverAbort ==
    /\ (pc = "collect" /\ i <= Len(Vehicle_instances))
          => ENABLED (GetSample \/ GetEmpty)
    /\ (pc = "loop" /\ iterLog # <<>> /\ Last(iterLog).empty)
          => /\ outcome = "running"
             /\ savedFrames = Last(iterLog).sf
             /\ LoopCond(savedFrames)
             /\ (snap < MaxTicks => ENABLED Tick)
    /\ (args.nvehicles >= 1 /\ popLog = <<>> /\ snap >= 1)
          => /\ savedFrames = -args.burn
             /\ writeLog = <<>>
             /\ outcome # "normal"

C11_Witness ==
    /\ pc = "loop"
    /\ args.nvehicles = 1 /\ args.frames >= 1 /\ args.save
    /\ popLog = <<>>
    /\ Len(iterLog) >= 2
    /\ \A n \in DOMAIN iterLog : iterLog[n].empty

C12_Counts ==
    NoTimeout =>
        /\ (pc \in {"loop", "collect"}) =>
              /\ savedFrames = Len(iterLog) - args.burn
              /\ snap = Len(iterLog) + IF pc = "collect" THEN 1 ELSE 0
        /\ (pc = "loop") =>
              (LoopCond(savedFrames) <=> Len(iterLog) < args.burn + args.frames)
        /\ (outcome = "normal") =>
              /\ Len(iterLog) = args.burn + args.frames
              /\ snap = args.burn + args.frames
              /\ savedFrames = args.frames

\* C12: as long as no sensorQueue.get raises Empty, the frame index is the
\* number of finished iterations minus burn and the while test fails exactly
\* after burn + frames iterations (ticks), with the frame index at frames;
\* and an uninterrupted run gets there unless a get raises Empty.
C12_TerminatesAfterBurnPlusFrames ==
    /\ []C12_Counts
    /\ <>(~NoTimeout \/ (outcome = "normal" /\ pc = "ended"))

C12_Witness ==
    /\ pc = "ended" /\ outcome = "normal" /\ NoTimeout
    /\ args.burn >= 1 /\ args.frames >= 1 /\ args.nvehicles >= 2
    /\ Len(iterLog) = args.burn + args.frames

\* C13 (as claimed): with args.save == '' every finished iteration has
\* popped each vehicle's sensorQueue once, the frame index advances exactly
\* in the iterations without Empty, and nothing is ever written.
C13_DryRunPopsAllWritesNothing ==
    ~args.save =>
        /\ \A n \in DOMAIN iterLog :
              PopsOf(iterLog[n].snap) = [j \in 1..args.nvehicles |-> j]
        /\ (pc \in {"loop", "collect"}) =>
              (savedFrames + args.burn =
                  Cardinality({n \in DOMAIN iterLog : ~iterLog[n].empty}))
        /\ writeLog = <<>>
        /\ f = NoFile

\* C14: the vehicle loop has no cap: while the list is short of
\* args.nvehicles, whatever failed before, another attempt is the only step
\* main can take (no exit, no fatal error); the phase is left exactly when
\* the list holds args.nvehicles handles, so everything after it, the event
\* loop included, runs with exactly that many vehicles.
C14_VehiclePhaseUncapped ==
    /\ (pc = "spawn_vehicles" /\ Len(Vehicle_instances) < args.nvehicles)
          => (ENABLED SpawnVehicle /\ ~ENABLED VehiclesDone)
    /\ (pc = "spawn_vehicles" /\ ~(Len(Vehicle_instances) < args.nvehicles))
          => /\ Len(Vehicle_instances) = args.nvehicles
             /\ ENABLED VehiclesDone /\ ~ENABLED SpawnVehicle
    /\ (pc \in {"spawn_walkers", "create_file", "loop", "collect"})
          => (Len(Vehicle_instances) = args.nvehicles)
    /\ (outcome = "fatal")
          => (Cardinality(ActorsOfKind("vehicle")) = args.nvehicles)

C14_Witness ==
    /\ vCollided
    /\ pc = "create_file"
    /\ args.nvehicles >= 2
    /\ Len(Vehicle_instances) = args.nvehicles

\* C15: as long as no sensorQueue.get has raised Empty (each lidar measures
\* once per tick), no sensorQueue holds more than one item, and all are
\* empty whenever the main thread is at the while test, about to tick.
C15_AtMostOnePending ==
    NoTimeout =>
        \A n \in DOMAIN Vehicle_instances :
            /\ Len(Vehicle_instances[n].sensorQueue) <= 1
            /\ (pc = "loop") => (Vehicle_instances[n].sensorQueue = <<>>)

C15_Witness ==
    /\ NoTimeout
    /\ pc = "loop"
    /\ Len(iterLog) >= 1
    /\ args.nvehicles >= 2
    /\ LoopCond(savedFrames)

\* the lidar of a vehicle handle, the controller of a walker handle
AttachedOf(a) == IF "lidar" \in DOMAIN a THEN a.lidar ELSE a.controller

C16_Step ==
    (pc = "finally") =>
        \A h \in DOMAIN AllInstances :
            \A n \in DOMAIN destroyLog' :
                (destroyLog'[n] = AllInstances[h].id) =>
                    (\E m \in 1..n - 1 :
                        destroyLog'[m] = AttachedOf(AllInstances[h]))

\* C16: in the finally block the lidar of every vehicle handle and the
\* controller of every walker handle gets its destroy call before the body
\* it is attached to gets its own.
C16_AttachedDestroyedBeforeBody ==
    [][C16_Step]_vars

C16_Witness ==
    /\ pc = "ended"
    /\ args.nvehicles >= 1 /\ args.npedestrians >= 1
    /\ Len(destroyLog) = 2 * (args.nvehicles + args.npedestrians)

\* a step of a callback thread: a measurement leaves the lidar
CallbackStep ==
    \E id \in DOMAIN inflight : Len(inflight'[id]) < Len(inflight[id])

C17_Step ==
    /\ CallbackStep =>
          /\ UNCHANGED <<savedFrames, f, Walker_instances, pc, i, snap,
                         writeLog, popLog, iterLog, actors>>
          /\ DOMAIN Vehicle_instances' = DOMAIN Vehicle_instances
          /\ \E id \in DOMAIN inflight :
                /\ inflight[id] # <<>>
                /\ inflight' = [inflight EXCEPT ![id] = Tail(@)]
                /\ \A n \in DOMAIN Vehicle_instances :
                      IF Vehicle_instances[n].lidar = id
                      THEN \/ Vehicle_instances'[n] = Vehicle_instances[n]
                           \/ Vehicle_instances'[n] =
                                 [Vehicle_instances[n] EXCEPT !.sensorQueue =
                                     Append(@, Head(inflight[id]))]
                      ELSE Vehicle_instances'[n] = Vehicle_instances[n]
    /\ (f' # f \/ savedFrames' # savedFrames) =>
          /\ ~CallbackStep
          /\ pc \in {"create_file", "collect"}
          /\ (pc' # pc \/ i' # i)

\* C17: a step of lidar_callback changes nothing but its own vehicle's
\* sensorQueue, to which it appends the one measurement it was called with
\* (nothing when the buffer cannot be reshaped): the frame index, the file,
\* both instance lists and every other sensorQueue stay as they are; the
\* file and the frame index change only in steps of the main thread.
C17_CallbackTouchesOwnQueueOnly ==
    [][C17_Step]_vars

C17_Witness ==
    /\ pc = "collect"
    /\ Len(Vehicle_instances) >= 2
    /\ Vehicle_instances[1].sensorQueue = <<>>
    /\ Vehicle_instances[2].sensorQueue # <<>>
    /\ writeLog # <<>>

\* C18: every assignment into the file is inside the shape of its dataset
\* (frame in 0..frames-1, slot below nvehicles or npedestrians), and for
\* the whole event loop the two lists hold exactly the configured counts.
C18_WritesInsideShape ==
    /\ \A n \in DOMAIN writeLog :
          <<writeLog[n].frame, writeLog[n].slot>> \in Shape(writeLog[n].stream)
    /\ (pc \in {"create_file", "loop", "collect"}) =>
          /\ Len(Vehicle_instances) = args.nvehicles
          /\ Len(Walker_instances) = args.npedestrians

C18_Witness ==
    /\ args.burn >= 1
    /\ \E n \in DOMAIN writeLog :
          /\ writeLog[n].stream = "pedestrian_boundingbox"
          /\ writeLog[n].frame = args.frames - 1
          /\ writeLog[n].slot = MaxPedestrians - 1
    /\ \E n \in DOMAIN writeLog :
          /\ writeLog[n].stream = "point_cloud"
          /\ writeLog[n].frame = args.frames - 1
          /\ writeLog[n].slot = 1

\* the measurement vehicle v popped in the iteration of tick t
SampleOf(t, v) ==
    LET n == CHOOSE n \in DOMAIN popLog :
                 popLog[n].snap = t /\ popLog[n].vehicle = v
    IN  popLog[n].frame

\* C19: after a normal end with a file, every frame 0..frames-1 holds, in
\* all four streams and all slots, what one iteration without Empty wrote,
\* the last iteration run at that index: the samples it popped and its
\* snapshot; nothing of an earlier, timed-out iteration at that index is left.
C19_FramesFromOneIteration ==
    (outcome = "normal" /\ args.save) =>
        \A fr \in 0..args.frames - 1 :
            \E n \in DOMAIN iterLog :
                /\ iterLog[n].sf = fr
                /\ ~iterLog[n].empty
                /\ \A m \in DOMAIN iterLog : (iterLog[m].sf = fr) => (m <= n)
                /\ \A slot \in 0..args.nvehicles - 1 :
                      /\ f["point_cloud"][<<fr, slot>>] =
                            SampleOf(iterLog[n].snap, slot + 1)
                      /\ f["lidar_pose"][<<fr, slot>>] =
                            SampleOf(iterLog[n].snap, slot + 1)
                      /\ f["vehicle_boundingbox"][<<fr, slot>>] =
                            iterLog[n].snap
                /\ \A slot \in 0..args.npedestrians - 1 :
                      f["pedestrian_boundingbox"][<<fr, slot>>] =
                          iterLog[n].snap

C19_Witness ==
    /\ pc = "ended" /\ outcome = "normal" /\ args.save
    /\ args.nvehicles >= 2 /\ args.npedestrians >= 1 /\ args.frames >= 1
    /\ \E n \in DOMAIN iterLog :
          iterLog[n].empty /\ WritesOf(iterLog[n].snap) # {}

====
